---- MODULE Spec2Model ----
(***************************************************************************)
(* Model of smtp_uvx_mcp/server.py: the EmailClient (Mail Sender) and the  *)
(* two MCP handlers handle_list_tools / handle_call_tool (Tool Gateway).   *)
(*                                                                         *)
(* Conventions.                                                            *)
(*  - A Python str is a sequence of text chunks; the empty str is <<>>,    *)
(*    concatenation is \o, and a line break is always a chunk of its own   *)
(*    ("\n").                                                              *)
(*  - A Python / JSON value is a record [t, s, n, l]: t is the type name,  *)
(*    s the str payload, n the int payload (or the number of keys of a     *)
(*    dict), l the list payload (a sequence of such records).              *)
(*  - An exception is a record [cls, msg]; NoExc means "nothing raised".   *)
(*  - Every handler is one atomic action; the random make_msgid() value    *)
(*    and the outcome of the external aiosmtplib.send call are inputs      *)
(*    drawn with \E.                                                       *)
(***************************************************************************)
EXTENDS FiniteSets, Integers, Sequences, TLC

\* ------------------------------------------------------------------ bounds
\* Number of requests served by one process in a checked behaviour.
MaxCalls == 2

\* Number of distinct values make_msgid() can return in the model.
MaxMsgId == 2

\* ----------------------------------------------------------- Python values
None == [t |-> "NoneType", s |-> <<>>, n |-> 0, l |-> <<>>]

Absent == [t |-> "absent", s |-> <<>>, n |-> 0, l |-> <<>>]

PyStr(s) == [t |-> "str", s |-> s, n |-> 0, l |-> <<>>]

PyInt(n) == [t |-> "int", s |-> <<>>, n |-> n, l |-> <<>>]

PyList(l) == [t |-> "list", s |-> <<>>, n |-> 0, l |-> l]

PyDict(n) == [t |-> "dict", s |-> <<>>, n |-> n, l |-> <<>>]

\* Python truth value of v, as used by `x or default` and `if html:`.
Truthy(v) ==
    CASE v.t = "NoneType" -> FALSE
      [] v.t = "str"      -> v.s # <<>>
      [] v.t = "int"      -> v.n # 0
      [] v.t = "list"     -> v.l # <<>>
      [] v.t = "dict"     -> v.n # 0
      [] OTHER            -> FALSE

\* `v or d`
Or(v, d) == IF Truthy(v) THEN v ELSE d

\* dict.get(key): None when the key is missing.
Get(d, key) == IF d[key].t = "absent" THEN None ELSE d[key]

\* isinstance(v, list) and all(isinstance(x, str) for x in v)
IsListOfStr(v) == v.t = "list" /\ \A i \in 1..Len(v.l) : v.l[i].t = "str"

\* -------------------------------------------------------------- exceptions
NoExc == [cls |-> "none", msg |-> <<>>]

\* Classes derived from Exception: the ones `except Exception` catches and
\* the ones a request handler may raise without ending the process.
ExceptionClasses ==
    {"ValueError", "RuntimeError", "TimeoutError", "ConnectionRefusedError",
     "SMTPAuthenticationError", "SMTPRecipientsRefused"}

\* ------------------------------------------------------------- environment
\* os.environ: each variable is either unset or set to a str.
Unset == [set |-> FALSE, s |-> <<>>]

SetTo(s) == [set |-> TRUE, s |-> s]

\* os.environ.get(key) / os.environ.get(key, default): None as Unset.
EnvGet(env, key, default) == IF env[key].set THEN env[key] ELSE default

\* str.lower(), chunk by chunk, on the spellings that occur in the model.
LowerChunk(c) ==
    CASE c = "TRUE" -> "true"
      [] c = "True" -> "true"
      [] c = "FALSE" -> "false"
      [] OTHER -> c

Lower(s) == [i \in 1..Len(s) |-> LowerChunk(s[i])]

\* int(port_str): the value, or -1 standing for ValueError.
ParseInt(s) ==
    CASE s = <<"465">> -> 465
      [] s = <<"587">> -> 587
      [] s = <<"25">>  -> 25
      [] OTHER -> -1

\* the `try: port = int(port_str) except ValueError: port = 587` block
Port(env) ==
    LET port_str == EnvGet(env, "SMTP_PORT", SetTo(<<"587">>)).s
    IN  IF ParseInt(port_str) = -1 THEN 587 ELSE ParseInt(port_str)

\* secure = os.environ.get("SMTP_SECURE", "false").lower() == "true"
Secure(env) == Lower(EnvGet(env, "SMTP_SECURE", SetTo(<<"false">>)).s) = <<"true">>

NoClient ==
    [host |-> <<>>, port |-> 0, use_tls |-> FALSE, username |-> <<>>,
     password |-> <<>>, from_addr |-> <<>>]

\* EmailClient.__init__: the exception raised (NoExc if none) and the object.
EmailClientInit(env) ==
    LET host == EnvGet(env, "SMTP_HOST", Unset)
        username == EnvGet(env, "SMTP_USER", Unset)
        password == EnvGet(env, "SMTP_PASS", Unset)
        from == EnvGet(env, "SMTP_FROM", Unset)
    IN  IF host.s = <<>>
        THEN [raised |-> [cls |-> "RuntimeError", msg |-> <<"SMTP_HOST is required">>],
              self |-> NoClient]
        ELSE IF username.s = <<>> \/ password.s = <<>>
        THEN [raised |-> [cls |-> "RuntimeError",
                          msg |-> <<"SMTP_USER and SMTP_PASS are required">>],
              self |-> NoClient]
        ELSE [raised |-> NoExc,
              self |-> [host |-> host.s, port |-> Port(env), use_tls |-> Secure(env),
                        username |-> username.s, password |-> password.s,
                        from_addr |-> IF from.s # <<>> THEN from.s ELSE username.s]]

\* Environments the process is started in: a complete one, and the ones
\* that differ from it in one variable.
BaseEnv ==
    [SMTP_HOST |-> SetTo(<<"smtp.example.com">>), SMTP_PORT |-> Unset,
     SMTP_SECURE |-> Unset, SMTP_USER |-> SetTo(<<"a@example.com">>),
     SMTP_PASS |-> SetTo(<<"x">>), SMTP_FROM |-> Unset]

Envs ==
    {BaseEnv}
      \cup {[BaseEnv EXCEPT !.SMTP_HOST = v] : v \in {Unset}}
      \cup {[BaseEnv EXCEPT !.SMTP_PORT = v] : v \in {SetTo(<<"abc">>)}}
      \cup {[BaseEnv EXCEPT !.SMTP_SECURE = v] : v \in {SetTo(<<"TRUE">>), SetTo(<<"1">>)}}
      \cup {[BaseEnv EXCEPT !.SMTP_USER = v] : v \in {Unset}}
      \cup {[BaseEnv EXCEPT !.SMTP_PASS = v] : v \in {SetTo(<<>>)}}
      \cup {[BaseEnv EXCEPT !.SMTP_FROM = v] : v \in {SetTo(<<"noreply@example.com">>)}}

\* ------------------------------------------------------------ Mail Sender
\* Variant of PreconditionFails: the emptiness check left out.
PreconditionFails_unchecked(to) == FALSE

\* `if not to`
PreconditionFails(to) == to = <<>>

RecipientsError == [cls |-> "ValueError", msg |-> <<"At least one recipient is required">>]

\* ", ".join(to)
RECURSIVE Join(_)
Join(to) ==
    IF to = <<>> THEN <<>>
    ELSE IF Len(to) = 1 THEN to[1]
    ELSE to[1] \o <<", ">> \o Join(Tail(to))

\* len(value.splitlines())
NumLines(s) ==
    Cardinality({i \in 1..Len(s) : s[i] = "\n"})
        + (IF Len(s) > 0 /\ s[Len(s)] # "\n" THEN 1 ELSE 0)

\* msg[name] = value raises ValueError for a value of more than one line
\* (EmailMessage under the default policy).
HeaderRejects(value) == NumLines(value) > 1

HeaderError ==
    [cls |-> "ValueError",
     msg |-> <<"Header values may not contain linefeed or carriage return characters">>]

\* The statements msg["To"] = ..., msg["Subject"] = ... raise.
ComposeRaises(to, subject) == HeaderRejects(Join(to)) \/ HeaderRejects(subject)

\* The body of the message: two parts when html is truthy, else one.
Parts(text, html) ==
    IF Truthy(html)
    THEN << [ctype |-> "text/plain", content |-> Or(text, PyStr(<<>>)).s],
            [ctype |-> "text/html", content |-> html.s] >>
    ELSE << [ctype |-> "text/plain", content |-> Or(text, PyStr(<<>>)).s] >>

\* The EmailMessage handed to the transport.
Compose(self, to, subject, text, html, msg_id) ==
    [From |-> self.from_addr, To |-> Join(to), Subject |-> subject,
     MessageId |-> msg_id, parts |-> Parts(text, html)]

NoMsg == [From |-> <<>>, To |-> <<>>, Subject |-> <<>>, MessageId |-> 0, parts |-> <<>>]

\* Variant of StartTls: STARTTLS requested unconditionally.
StartTls_always(use_tls) == TRUE

\* start_tls = not self.use_tls
StartTls(use_tls) == ~use_tls

\* Keyword arguments of the aiosmtplib.send call.
SendKwargs(self) ==
    [hostname |-> self.host, port |-> self.port, username |-> self.username,
     password |-> self.password, use_tls |-> self.use_tls,
     start_tls |-> StartTls(self.use_tls)]

NoKwargs ==
    [hostname |-> <<>>, port |-> 0, username |-> <<>>, password |-> <<>>,
     use_tls |-> FALSE, start_tls |-> FALSE]

\* info.decode() if hasattr(info, "decode") else str(info)
DecodeInfo(info) == info.s

\* str(e)
StrExc(e) == e.msg

\* Variant of Caught: `except aiosmtplib.SMTPException`.
Caught_smtp_only(e) == e.cls \in {"SMTPAuthenticationError", "SMTPRecipientsRefused"}

\* `except Exception as e`
Caught(e) == e.cls \in ExceptionClasses

\* The dict returned after the transport accepted.
SuccessResult(msg_id, to, code, info) ==
    [messageId |-> msg_id, accepted |-> to, rejected |-> <<>>,
     responseCode |-> code, responseInfo |-> DecodeInfo(info)]

\* Variant of FailureResult: only the first recipient reported as rejected.
FailureResult_first_only(msg_id, to, e) ==
    [messageId |-> msg_id, accepted |-> Tail(to), rejected |-> <<to[1]>>,
     error |-> e.msg]

\* Variant of FailureResult: a second make_msgid() in the except branch.
FailureResult_new_id(msg_id, to, e) ==
    [messageId |-> (msg_id % MaxMsgId) + 1, accepted |-> <<>>, rejected |-> to,
     error |-> e.msg]

\* The dict returned from the except branch.
FailureResult(msg_id, to, e) ==
    [messageId |-> msg_id, accepted |-> <<>>, rejected |-> to, error |-> StrExc(e)]

NoResult == [none |-> TRUE]

\* What aiosmtplib.send can do: return (code, info) or raise.
Accept(code, isBytes, s) ==
    [kind |-> "ok", code |-> code, info |-> [bytes |-> isBytes, s |-> s], exc |-> NoExc]

Raise(cls, msg) ==
    [kind |-> "raise", code |-> 0, info |-> [bytes |-> FALSE, s |-> <<>>],
     exc |-> [cls |-> cls, msg |-> msg]]

TransportOutcomes ==
    {Accept(250, TRUE, <<"2.0.0 OK">>),
     Accept(250, FALSE, <<"2.0.0 OK">>),
     Raise("SMTPAuthenticationError", <<"(535, 'Authentication failed')">>),
     Raise("TimeoutError", <<>>)}

\* EmailClient.send_email.  msg_id is the value make_msgid() returns and
\* outcome what aiosmtplib.send does; both are consulted only on the path
\* that reaches them.  The record tells what the call did: the exception it
\* raised, the dict it returned, the message it composed, how many ids it
\* generated, how many times it called the transport and with what.
send_email(self, to, subject, text, html, msg_id, outcome) ==
    IF PreconditionFails(to)
    THEN [raised |-> RecipientsError, result |-> NoResult, composed |-> FALSE,
          msg |-> NoMsg, msgids |-> 0, attempts |-> 0, kwargs |-> NoKwargs]
    ELSE IF ComposeRaises(to, subject)
    THEN [raised |-> HeaderError, result |-> NoResult, composed |-> FALSE,
          msg |-> NoMsg, msgids |-> 0, attempts |-> 0, kwargs |-> NoKwargs]
    ELSE LET msg == Compose(self, to, subject, text, html, msg_id)
         IN  IF outcome.kind = "ok"
             THEN [raised |-> NoExc,
                   result |-> SuccessResult(msg_id, to, outcome.code, outcome.info),
                   composed |-> TRUE, msg |-> msg, msgids |-> 1, attempts |-> 1,
                   kwargs |-> SendKwargs(self)]
             ELSE IF Caught(outcome.exc)
             THEN [raised |-> NoExc,
                   result |-> FailureResult(msg_id, to, outcome.exc),
                   composed |-> TRUE, msg |-> msg, msgids |-> 1, attempts |-> 1,
                   kwargs |-> SendKwargs(self)]
             ELSE [raised |-> outcome.exc, result |-> NoResult,
                   composed |-> TRUE, msg |-> msg, msgids |-> 1, attempts |-> 1,
                   kwargs |-> SendKwargs(self)]
\* ------------------------------------------------------------ Tool Gateway
\* The types.Tool built by handle_list_tools.
ToolDescriptor ==
    [name |-> "send_email",
     description |-> "Send an email to a recipient",
     properties |-> [to |-> [type |-> "array", items |-> "string"],
                     subject |-> [type |-> "string", items |-> ""],
                     body |-> [type |-> "string", items |-> ""]],
     required |-> <<"to", "subject", "body">>]

\* handle_list_tools: the list it returns.
handle_list_tools == <<ToolDescriptor>>

\* Variant of UnknownTool: the name check left out.
UnknownTool_unchecked(name) == FALSE

\* `if name != "send_email"`
UnknownTool(name) == name # "send_email"

\* Variant of UnknownToolError: sys.exit instead of raising ValueError.
UnknownToolError_exit(name) == [cls |-> "SystemExit", msg |-> <<"Unknown tool: ", name>>]

\* ValueError(f"Unknown tool: {name}")
UnknownToolError(name) == [cls |-> "ValueError", msg |-> <<"Unknown tool: ", name>>]

\* ValueError("'to' must be a list of strings")
ToError == [cls |-> "ValueError", msg |-> <<"'to' must be a list of strings">>]

\* Keys of the result dict in insertion order, the order json.dumps keeps.
KeyOrder(d) ==
    IF "error" \in DOMAIN d
    THEN <<"messageId", "accepted", "rejected", "error">>
    ELSE <<"messageId", "accepted", "rejected", "responseCode", "responseInfo">>

\* json.dumps(result): the text, as the sequence of its key/value members.
JsonDumps(d) == [i \in 1..Len(KeyOrder(d)) |-> <<KeyOrder(d)[i], d[KeyOrder(d)[i]]>>]

\* types.TextContent(type="text", text=...)
TextContent(text) == [type |-> "text", text |-> text]

NoSend == [called |-> FALSE]

\* handle_call_tool: the exception it raises (NoExc if none), the content
\* list it returns, and the send_email call it made (NoSend if none).
handle_call_tool(self, name, arguments, msg_id, outcome) ==
    IF UnknownTool(name)
    THEN [raised |-> UnknownToolError(name), content |-> <<>>, send |-> NoSend]
    ELSE LET to == Or(Get(arguments, "to"), PyList(<<>>))
             subject == Or(Get(arguments, "subject"), PyStr(<<>>))
             body == Or(Get(arguments, "body"), PyStr(<<>>))
         IN  IF ~IsListOfStr(to)
             THEN [raised |-> ToError, content |-> <<>>, send |-> NoSend]
             ELSE LET rcpts == [i \in 1..Len(to.l) |-> to.l[i].s]
                      r == send_email(self, rcpts, subject.s, body, None, msg_id, outcome)
                      send == [called |-> TRUE, to |-> rcpts, subject |-> subject.s,
                               outcome |-> outcome, r |-> r]
                  IN  IF r.raised # NoExc
                      THEN [raised |-> r.raised, content |-> <<>>, send |-> send]
                      ELSE [raised |-> NoExc,
                            content |-> <<TextContent(JsonDumps(r.result))>>,
                            send |-> send]

\* What server.run does with a handler that raised: an exception derived
\* from Exception fails that request only; anything else ends the process.
StateAfter(raised) ==
    IF raised = NoExc \/ raised.cls \in ExceptionClasses THEN "Ready" ELSE "Terminated"

\* ------------------------------------------------------------------ inputs
Addr_b == <<"b@example.com">>

Addr_c == <<"c@example.com">>

Addr_2lines == <<"d@example.com", "\n", "Bcc: e@example.com">>

Subj_Hi == <<"Hi">>

Subj_2lines == <<"Hi", "\n", "Bcc: e@example.com">>

\* Capability names a client invokes.
ToolNames == {"send_email", "delete_email"}

\* Values of the `to` argument.
ToArgs ==
    {Absent, PyInt(0), PyStr(<<>>), PyStr(Addr_b),
     PyList(<<>>), PyList(<<PyStr(Addr_b)>>), PyList(<<PyStr(Addr_b), PyStr(Addr_c)>>),
     PyList(<<PyStr(Addr_b), PyInt(5)>>), PyList(<<PyStr(Addr_2lines)>>)}

\* Values of the `subject` argument (absent or a str).
SubjectArgs == {Absent, PyStr(Subj_Hi), PyStr(Subj_2lines)}

\* Values of the `body` argument (absent or a str).
BodyArgs == {Absent, PyStr(<<"Hello">>)}

\* The argument dicts: every `to` with every `subject`, and one dict that
\* omits `body`.
Arguments ==
    [to : ToArgs, subject : SubjectArgs, body : BodyArgs \ {Absent}]
      \cup [to : {PyList(<<PyStr(Addr_b)>>)}, subject : {PyStr(Subj_Hi)}, body : {Absent}]

\* Arguments of a direct EmailClient.send_email call.
SendTos == {<<>>, <<Addr_b>>, <<Addr_b, Addr_c>>, <<Addr_2lines>>}

SendSubjects == {Subj_Hi, Subj_2lines}

SendTexts == {PyStr(<<"Hello">>)}

SendHtmls == {None, PyStr(<<"<p>Hello</p>">>)}

MsgIds == 1..MaxMsgId

DefaultOutcome == Accept(250, FALSE, <<"2.0.0 OK">>)

\* ------------------------------------------------------------------- state
VARIABLES
    state,         \* "Uninitialized", "Ready", "Aborted" or "Terminated"
    environ,       \* os.environ of the process
    email_client,  \* the module-level EmailClient
    lastReq,       \* the request served last
    lastResp,      \* its response
    lastSend,      \* the send_email call it made, or NoSend
    requests,      \* number of requests served
    errors,        \* number of requests whose handler raised
    sendCalls,     \* number of send_email calls
    composed,      \* number of send_email calls that composed their message
    attempts,      \* number of aiosmtplib.send calls
    modes          \* the <<use_tls, start_tls>> pairs of those calls

vars ==
    <<state, environ, email_client, lastReq, lastResp, lastSend, requests,
      errors, sendCalls, composed, attempts, modes>>

NoReq == [kind |-> "none"]

NoResp == [kind |-> "none"]

Init ==
    /\ state = "Uninitialized"
    /\ environ \in Envs
    /\ email_client = NoClient
    /\ lastReq = NoReq
    /\ lastResp = NoResp
    /\ lastSend = NoSend
    /\ requests = 0
    /\ errors = 0
    /\ sendCalls = 0
    /\ composed = 0
    /\ attempts = 0
    /\ modes = {}

\* Import of the module: `email_client = EmailClient()` followed by _run().
Startup ==
    /\ state = "Uninitialized"
    /\ LET c == EmailClientInit(environ)
       IN  /\ state' = IF c.raised = NoExc THEN "Ready" ELSE "Aborted"
           /\ email_client' = c.self
    /\ UNCHANGED <<environ, lastReq, lastResp, lastSend, requests, errors,
                   sendCalls, composed, attempts, modes>>

\* Bookkeeping of one send_email call record (NoSend: no call).
Account(send) ==
    /\ lastSend' = send
    /\ sendCalls' = sendCalls + (IF send.called THEN 1 ELSE 0)
    /\ composed' = composed + (IF send.called /\ send.r.composed THEN 1 ELSE 0)
    /\ attempts' = attempts + (IF send.called THEN send.r.attempts ELSE 0)
    /\ modes' = IF send.called /\ send.r.attempts > 0
                THEN modes \cup {<<send.r.kwargs.use_tls, send.r.kwargs.start_tls>>}
                ELSE modes

\* A list-tools request.
ListTools ==
    /\ state = "Ready"
    /\ requests < MaxCalls
    /\ requests' = requests + 1
    /\ lastReq' = [kind |-> "list_tools"]
    /\ lastResp' = [kind |-> "tools", tools |-> handle_list_tools]
    /\ Account(NoSend)
    /\ UNCHANGED <<state, environ, email_client, errors>>

ServeCall(name, arguments, msg_id, outcome) ==
    LET h == handle_call_tool(email_client, name, arguments, msg_id, outcome)
    IN  /\ requests' = requests + 1
        /\ lastReq' = [kind |-> "call_tool", name |-> name, arguments |-> arguments]
        /\ lastResp' = IF h.raised = NoExc
                       THEN [kind |-> "result", content |-> h.content]
                       ELSE [kind |-> "error", error |-> h.raised]
        /\ errors' = errors + (IF h.raised = NoExc THEN 0 ELSE 1)
        /\ state' = StateAfter(h.raised)
        /\ Account(h.send)
        /\ UNCHANGED <<environ, email_client>>

\* A call-tool request.  The message id and the transport outcome are drawn
\* only when the handler gets as far as the transport.
CallTool ==
    /\ state = "Ready"
    /\ requests < MaxCalls
    /\ \E name \in ToolNames, arguments \in Arguments :
          LET probe == handle_call_tool(email_client, name, arguments, 1, DefaultOutcome)
          IN  IF probe.send.called /\ probe.send.r.attempts > 0
              THEN \E msg_id \in MsgIds, outcome \in TransportOutcomes :
                      ServeCall(name, arguments, msg_id, outcome)
              ELSE ServeCall(name, arguments, 1, DefaultOutcome)

DoSend(to, subject, text, html, msg_id, outcome) ==
    LET r == send_email(email_client, to, subject, text, html, msg_id, outcome)
    IN  /\ requests' = requests + 1
        /\ lastReq' = [kind |-> "send_email", to |-> to, subject |-> subject,
                       text |-> text, html |-> html]
        /\ lastResp' = IF r.raised = NoExc
                       THEN [kind |-> "return", result |-> r.result]
                       ELSE [kind |-> "raise", error |-> r.raised]
        /\ Account([called |-> TRUE, to |-> to, subject |-> subject,
                    outcome |-> outcome, r |-> r])
        /\ UNCHANGED <<state, environ, email_client, errors>>

\* A direct call of the public EmailClient.send_email, html included.
SendEmail ==
    /\ state = "Ready"
    /\ requests < MaxCalls
    /\ \E to \in SendTos, subject \in SendSubjects, text \in SendTexts, html \in SendHtmls :
          IF send_email(email_client, to, subject, text, html, 1, DefaultOutcome).attempts > 0
          THEN \E msg_id \in MsgIds, outcome \in TransportOutcomes :
                  DoSend(to, subject, text, html, msg_id, outcome)
          ELSE DoSend(to, subject, text, html, 1, DefaultOutcome)

Next == Startup \/ ListTools \/ CallTool \/ SendEmail

Spec == Init /\ [][Next]_vars

TypeOK ==
    /\ state \in {"Uninitialized", "Ready", "Aborted", "Terminated"}
    /\ requests \in 0..MaxCalls
    /\ attempts <= composed
    /\ composed <= sendCalls
    /\ sendCalls <= requests
\* ------------------------------------------------------------------ claims
\* The last request was a send_email invocation with a non-empty list of
\* strings whose transport call raised.
TransportRaisedInCall ==
    /\ lastReq.kind = "call_tool"
    /\ lastReq.name = "send_email"
    /\ IsListOfStr(lastReq.arguments.to)
    /\ lastReq.arguments.to.l # <<>>
    /\ lastSend.called
    /\ lastSend.r.attempts = 1
    /\ lastSend.outcome.kind = "raise"

\* The last request called send_email and got a dict back.
SendReturned == lastSend.called /\ lastSend.r.raised = NoExc

\* C1: when the transport raises during a send_email invocation with a
\* non-empty list of strings, the invocation completes with a normal response
\* whose single text item encodes the Failure variant, never with an error.
C1_TransportFailureIsNormalResponse ==
    TransportRaisedInCall =>
        /\ lastResp.kind = "result"
        /\ Len(lastResp.content) = 1
        /\ lastResp.content[1].type = "text"
        /\ [i \in 1..Len(lastResp.content[1].text) |-> lastResp.content[1].text[i][1]]
              = <<"messageId", "accepted", "rejected", "error">>

C1_Witness ==
    /\ TransportRaisedInCall
    /\ lastSend.outcome.exc.cls = "TimeoutError"
    /\ lastResp.kind = "result"

\* C2: every result returned for a non-empty recipient sequence R has either
\* accepted = R and rejected empty (transport accepted) or rejected = R and
\* accepted empty (transport raised).
C2_AllOrNothing ==
    (SendReturned /\ lastSend.to # <<>>) =>
        \/ /\ lastSend.outcome.kind = "ok"
           /\ lastSend.r.result.accepted = lastSend.to
           /\ lastSend.r.result.rejected = <<>>
        \/ /\ lastSend.outcome.kind = "raise"
           /\ lastSend.r.result.rejected = lastSend.to
           /\ lastSend.r.result.accepted = <<>>

C2_Witness ==
    /\ SendReturned
    /\ Len(lastSend.to) = 2
    /\ lastSend.outcome.kind = "raise"
    /\ lastSend.r.result.rejected = <<Addr_b, Addr_c>>

C5_MalformedToRejectedByGateway ==
    (/\ lastReq.kind = "call_tool"
     /\ lastReq.name = "send_email"
     /\ lastReq.arguments.to.t # "absent"
     /\ ~IsListOfStr(lastReq.arguments.to)) =>
        /\ lastResp.kind = "error"
        /\ lastResp.error.msg = <<"'to' must be a list of strings">>
        /\ ~lastSend.called

\* C6: once an invocation has failed with a per-call error the server is
\* still Ready, its EmailClient is the one built at startup, and a
\* list-tools request is answered with the one descriptor.
C6_ErrorLeavesServerReady ==
    errors > 0 =>
        /\ state = "Ready"
        /\ email_client = EmailClientInit(environ).self
        /\ lastReq.kind = "list_tools" => lastResp.tools = <<ToolDescriptor>>
        /\ lastResp.kind = "error" => lastResp.error.cls \in ExceptionClasses

C6_Witness ==
    /\ errors > 0
    /\ requests > errors
    /\ lastReq.kind = "call_tool"
    /\ lastResp.kind = "result"

\* C7: an invocation of any name other than send_email fails with the
\* unknown-tool error and makes no send_email call (nothing composed, no
\* transport attempt), whatever its arguments.
C7_UnknownToolNeverReachesSender ==
    (lastReq.kind = "call_tool" /\ lastReq.name # "send_email") =>
        /\ lastResp.kind = "error"
        /\ lastResp.error.msg = <<"Unknown tool: ", lastReq.name>>
        /\ ~lastSend.called

C7_Witness ==
    /\ lastReq.kind = "call_tool"
    /\ lastReq.name = "delete_email"
    /\ IsListOfStr(lastReq.arguments.to)
    /\ lastReq.arguments.to.l # <<>>
    /\ lastResp.kind = "error"

C9_ExactlyOneTlsMode ==
    /\ Cardinality(modes) <= 1
    /\ (lastSend.called /\ lastSend.r.attempts = 1) =>
          /\ lastSend.r.kwargs.use_tls # lastSend.r.kwargs.start_tls
          /\ lastSend.r.kwargs.use_tls
                <=> (environ.SMTP_SECURE.set
                      /\ environ.SMTP_SECURE.s \in {<<"true">>, <<"TRUE">>, <<"True">>})
          /\ modes = {<<lastSend.r.kwargs.use_tls, lastSend.r.kwargs.start_tls>>}

C9_Witness ==
    /\ attempts = 2
    /\ lastSend.called
    /\ lastSend.r.attempts = 1
    /\ lastSend.r.kwargs.use_tls
    /\ ~lastSend.r.kwargs.start_tls

\* C10 (as claimed): the error field of every Failure variant is a non-empty
\* description.
C10_FailureErrorNonEmpty ==
    (SendReturned /\ "error" \in DOMAIN lastSend.r.result) =>
        lastSend.r.result.error # <<>>
====
